---- MODULE Spec2Model ----
(***************************************************************************)
(* State-machine model of the portfolio backend: an Express application    *)
(* (server file, src/unnamed/part_000) over four Mongoose collections      *)
(* (Settings, Project, Blog, Contact), a shared-secret auth middleware, a  *)
(* startup seeding routine and a fire-and-forget Discord notification.     *)
(*                                                                         *)
(* Every handler is an async function with one awaited store operation     *)
(* (three for GET /api/data).  A request is therefore modelled in two      *)
(* steps: its arrival (routing, the auth middleware and the synchronous    *)
(* prefix of the handler, which builds the operation's argument, reading   *)
(* Date.now()), and the completion of the awaited store operation together *)
(* with the continuation that sends the response.  Store operations of     *)
(* different requests, and of the seeding routine, interleave freely.      *)
(***************************************************************************)
EXTENDS Integers, Sequences, FiniteSets, TLC

\* ------------------------------------------------------------------ bounds
\* Date.now() takes the values 0..MaxTime.
MaxTime == 2
\* Requests in flight at the same time.
MaxReq == 1
\* Project, Blog and Contact documents the store may hold in all (a create is
\* not accepted beyond it).
MaxDocs == 2
\* Process starts (each start runs seedDatabase once).
MaxStarts == 2

VARIABLES
    env,        \* process.env: ADMIN_PASSWORD, DISCORD_WEBHOOK_URL
    now,        \* the value Date.now() returns
    settings,   \* the Settings collection, in insertion order
    projects,   \* the Project collection
    blogs,      \* the Blog collection
    contacts,   \* the Contact collection
    seed,       \* seedDatabase: its position, the count it read, its log
    starts,     \* number of process starts so far
    req,        \* the requests awaiting the store: one record per slot
    posts,      \* notifications (axios.post) in flight
    sent,       \* the response the last step sent, if it sent one
    traffic     \* the group of routes the clients of this run call

vars ==
    <<env, now, settings, projects, blogs, contacts, seed, starts, req, posts, sent, traffic>>
store == <<settings, projects, blogs, contacts>>

Slots == 1..MaxReq

\* ------------------------------------------------------- JavaScript values
\* A credential is a JavaScript value: a header is a string or undefined, a
\* JSON body field may also be a number or null.  A value keeps its type, so
\* that === (same type and same value) differs from ==.
Undefined == [t |-> "undefined", v |-> ""]
Null == [t |-> "null", v |-> ""]
Str(s) == [t |-> "string", v |-> s]

StrictEquals(a, b) == a.t = b.t /\ a.v = b.v

\* A field a document does not have.
Absent == "<absent>"

\* ---------------------------------------------------------------- endpoints
GetData == "GET /api/data"
PutSettings == "PUT /api/settings"
PostProject == "POST /api/projects"
PutProject == "PUT /api/projects/:id"
DeleteProject == "DELETE /api/projects/:id"
GetBlogs == "GET /api/blogs"
PostBlog == "POST /api/blogs"
DeleteBlog == "DELETE /api/blogs/:id"
PostContact == "POST /api/contact"
GetContact == "GET /api/contact"
PostLogin == "POST /api/login"

\* The routes registered with the auth middleware.
Protected ==
    {PutSettings, PostProject, PutProject, DeleteProject, PostBlog, DeleteBlog, GetContact}

\* The routes whose handler awaits the store.
Awaiting ==
    {GetData, PutSettings, PostProject, PutProject, DeleteProject, GetBlogs, PostBlog,
     DeleteBlog, PostContact, GetContact}

\* ------------------------------------------------------------------ schemas
SettingsFields == {"name", "bio", "email", "phone", "address"}

\* Settings.create(fields) / a document inserted by an upsert: the fields given,
\* and the schema default for name when it is not given.
SettingsSchema(fields) ==
    [f \in SettingsFields |->
        IF f \in DOMAIN fields THEN fields[f]
        ELSE IF f = "name" THEN "Vaibhav Kumar" ELSE Absent]

\* new Project(fields): id and title are required, category defaults to 'web'.
\* Every caller passes an id (WithId), so only title can be missing.
ProjectSchema(fields) ==
    [id |-> fields.id,
     title |-> IF "title" \in DOMAIN fields THEN fields.title ELSE Absent,
     category |-> IF "category" \in DOMAIN fields THEN fields.category ELSE "web"]

ProjectValid(doc) == doc.title # Absent

\* new Blog(fields): id, title and content are required, date defaults to
\* Date.now at construction.
BlogSchema(fields, t) ==
    [id |-> fields.id,
     title |-> IF "title" \in DOMAIN fields THEN fields.title ELSE Absent,
     content |-> IF "content" \in DOMAIN fields THEN fields.content ELSE Absent,
     date |-> IF "date" \in DOMAIN fields THEN fields.date ELSE t]

BlogValid(doc) == doc.title # Absent /\ doc.content # Absent

\* new Contact(fields): the model file is not part of the sources; the fields
\* are those the specification gives it (id, name, email, message, and a date
\* that defaults to the creation time).
ContactSchema(fields, t) ==
    [id |-> fields.id,
     name |-> IF "name" \in DOMAIN fields THEN fields.name ELSE Absent,
     email |-> IF "email" \in DOMAIN fields THEN fields.email ELSE Absent,
     message |-> IF "message" \in DOMAIN fields THEN fields.message ELSE Absent,
     date |-> IF "date" \in DOMAIN fields THEN fields.date ELSE t]

\* { id: Date.now(), ...req.body }: the body's own id, if it has one, replaces
\* the timestamp.
WithId(t, body) ==
    [f \in DOMAIN body \cup {"id"} |-> IF f \in DOMAIN body THEN body[f] ELSE t]

\* ------------------------------------------------------------ store queries
\* Model.countDocuments()
countDocuments(coll) == Len(coll)

\* No document (null).
NoDoc == <<>>

\* Model.findOne(): the first document, or null.
findOne(coll) == IF coll = <<>> THEN NoDoc ELSE coll[1]

\* Fault injection for C7: the update replaces the document, so the fields it
\* does not name are lost.
ApplyReplace(doc, update) ==
    [f \in DOMAIN doc |-> IF f \in DOMAIN update THEN update[f] ELSE Absent]

\* An update document without operators is applied as $set: the fields it names
\* take its values, every other field of the document keeps its own.
ApplySet(doc, update) ==
    [f \in DOMAIN doc |-> IF f \in DOMAIN update THEN update[f] ELSE doc[f]]

\* Settings.findOneAndUpdate({}, update, { new: true, upsert: true }): the first
\* document is updated; when there is none, one is inserted from the update
\* (with the schema defaults when `defaults`, which depends on the Mongoose
\* version's setDefaultsOnInsert).  Returns the collection and, new: true, the
\* document after the update.
UpsertFirst(coll, update, defaults) ==
    IF coll = <<>>
    THEN LET doc == IF defaults THEN SettingsSchema(update)
                    ELSE [f \in SettingsFields |->
                             IF f \in DOMAIN update THEN update[f] ELSE Absent]
         IN [coll |-> <<doc>>, doc |-> doc]
    ELSE LET doc == ApplySet(coll[1], update)
         IN [coll |-> [coll EXCEPT ![1] = doc], doc |-> doc]

\* req.params.id is a string and the schema's id a Number: Mongoose casts the
\* filter's value, and the cast of a string that is no number fails (CastError).
PathIds == {ToString(n) : n \in 0..MaxTime} \cup {"abc"}

CastNumber(s) ==
    IF \E n \in 0..MaxTime : ToString(n) = s
    THEN [ok |-> TRUE, n |-> CHOOSE n \in 0..MaxTime : ToString(n) = s]
    ELSE [ok |-> FALSE, n |-> 0]

\* The position of the first document whose id is n, 0 when there is none.
FirstMatch(coll, n) ==
    IF \E i \in 1..Len(coll) : coll[i].id = n
    THEN CHOOSE i \in 1..Len(coll) :
             coll[i].id = n /\ \A j \in 1..(i - 1) : coll[j].id # n
    ELSE 0

\* Model.findOneAndUpdate({ id: n }, update): no upsert.
findOneAndUpdate(coll, n, update) ==
    LET i == FirstMatch(coll, n)
    IN IF i = 0 THEN coll ELSE [coll EXCEPT ![i] = ApplySet(@, update)]

\* Model.findOneAndDelete({ id: n })
findOneAndDelete(coll, n) ==
    LET i == FirstMatch(coll, n)
    IN IF i = 0 THEN coll
       ELSE [k \in 1..(Len(coll) - 1) |-> IF k < i THEN coll[k] ELSE coll[k + 1]]

\* .sort({ date: -1 }): the documents by date, latest first (insertion sort,
\* documents of equal date keep their order).
RECURSIVE InsertByDate(_, _)
InsertByDate(doc, sorted) ==
    IF sorted = <<>> THEN <<doc>>
    ELSE IF Head(sorted).date >= doc.date
         THEN <<Head(sorted)>> \o InsertByDate(doc, Tail(sorted))
         ELSE <<doc>> \o sorted

\* Fault injection for C6: the query without its .sort(), in insertion order.
Unsorted(coll) == coll

RECURSIVE SortByDateDesc(_)
SortByDateDesc(coll) ==
    IF coll = <<>> THEN <<>>
    ELSE InsertByDate(coll[Len(coll)], SortByDateDesc(SubSeq(coll, 1, Len(coll) - 1)))

\* ---------------------------------------------------------------- responses
\* res.status(status).json({ message, ...data })
Res(status, message, data) == [status |-> status, message |-> message, data |-> data]

\* Nothing sent yet.
NoRes == Res(0, "", NoDoc)

\* Fault injection for C8: the blog routes' catch blocks copied from the
\* project routes with their messages.
CatchCopied(ep) ==
    Res(500,
        CASE ep = GetData -> "Server Error"
          [] ep = PutSettings -> "Error updating settings"
          [] ep \in {PostProject, PostBlog} -> "Error adding project"
          [] ep = PutProject -> "Error updating project"
          [] ep \in {DeleteProject, DeleteBlog} -> "Error deleting project"
          [] ep = GetBlogs -> "Error fetching blogs"
          [] ep = PostContact -> "Error sending message"
          [] ep = GetContact -> "Error fetching messages",
        NoDoc)

\* The catch block of each handler: res.status(500).json({ message }).
Catch(ep) ==
    Res(500,
        CASE ep = GetData -> "Server Error"
          [] ep = PutSettings -> "Error updating settings"
          [] ep = PostProject -> "Error adding project"
          [] ep = PutProject -> "Error updating project"
          [] ep = DeleteProject -> "Error deleting project"
          [] ep = GetBlogs -> "Error fetching blogs"
          [] ep = PostBlog -> "Error adding blog"
          [] ep = DeleteBlog -> "Error deleting blog"
          [] ep = PostContact -> "Error sending message"
          [] ep = GetContact -> "Error fetching messages",
        NoDoc)

\* ------------------------------------------------------------------- inputs
Secret == Str("s3cret")

\* What process.env.ADMIN_PASSWORD may be: unset, or a string.
AdminPasswords == {Undefined, Secret}

\* What process.env.DISCORD_WEBHOOK_URL may be.
WebhookUrls == {Undefined, Str("https://discord.example/webhook")}

\* The 'password' header of a request: missing, or a string.
HeaderPasswords == {Undefined, Secret, Str("wrong")}

\* The password field of a login body: missing, null, or a string.
LoginPasswords == {Undefined, Null, Secret, Str("wrong")}

NoBody == <<>>

SettingsBodies == {[name |-> "Ada"], [bio |-> "b1", phone |-> "p1"], [bio |-> "b2"]}

ProjectBodies == {[title |-> "t1"], [category |-> "c1"], [id |-> 0, title |-> "t1"]}

ProjectUpdates == {[title |-> "t2"], [category |-> "c2"]}

BlogBodies ==
    {[title |-> "t1", content |-> "c1"], [title |-> "t1"]}
        \cup {[title |-> "t1", content |-> "c1", date |-> d] : d \in 0..MaxTime}

ContactBodies ==
    {[name |-> "n1", email |-> "e1", message |-> "m1"]}
        \cup {[name |-> "n1", email |-> "e1", message |-> "m1", date |-> d] :
                  d \in 0..MaxTime}

\* ----------------------------------------------------------------- requests
\* A slot with no request.
Idle ==
    [ep |-> "", pc |-> "idle", password |-> Undefined, id |-> "", body |-> NoBody,
     arg |-> NoDoc, ops |-> 0]

\* No response sent by this step.
Quiet ==
    [slot |-> 0, ep |-> "", credential |-> Undefined, id |-> "", ops |-> 0,
     err |-> "", res |-> NoRes]

\* Request q of slot r is answered with res, after ops store operations, the
\* last of which rejected with err ("" when it resolved).
Answer(r, q, credential, ops, err, res) ==
    [slot |-> r, ep |-> q.ep, credential |-> credential, id |-> q.id, ops |-> ops,
     err |-> err, res |-> res]

Creates == {PostProject, PostBlog, PostContact}

\* A create is accepted while the store has room for its document.
Room(ep) ==
    ep \in Creates =>
        Len(projects) + Len(blogs) + Len(contacts)
            + Cardinality({s \in Slots : req[s].pc = "await" /\ req[s].ep \in Creates})
        < MaxDocs

\* Fault injection for C1: the middleware calls next() whatever the header.
authAlwaysNext(password) == TRUE

\* The auth middleware: next() when the header is the configured secret.
auth(password) == StrictEquals(password, env.ADMIN_PASSWORD)

\* Fault injection for C9: a login that also requires the secret to be set.
loginRequiresSecret(password) ==
    env.ADMIN_PASSWORD # Undefined /\ StrictEquals(password, env.ADMIN_PASSWORD)

\* The login handler's test of the body's password.
login(password) == StrictEquals(password, env.ADMIN_PASSWORD)

\* The synchronous prefix of a handler: the document handed to Model.create,
\* built when the handler runs, with the id Date.now() gives then.
HandlerArg(ep, body) ==
    CASE ep = PostProject -> ProjectSchema(WithId(now, body))
      [] ep = PostBlog -> BlogSchema(WithId(now, body), now)
      [] ep = PostContact -> ContactSchema(WithId(now, body), now)
      [] OTHER -> NoDoc

\* A request arrives in slot r: the auth middleware of a protected route, then
\* the handler up to its first await.  A request the middleware refuses is
\* answered 401 at once and never reaches the handler.
Arrive(r, ep, password, id, body) ==
    /\ req[r].pc = "idle"
    /\ Room(ep)
    /\ LET q == [Idle EXCEPT !.ep = ep, !.password = password, !.id = id,
                              !.body = IF ep \in Creates THEN NoBody ELSE body]
       IN IF auth(password)
          THEN /\ req' = [req EXCEPT ![r] =
                              [q EXCEPT !.pc = "await", !.arg = HandlerArg(ep, body)]]
               /\ sent' = Quiet
          ELSE /\ req' = req
               /\ sent' = Answer(r, q, password, 0, "", Res(401, "Unauthorized", NoDoc))
    /\ UNCHANGED <<env, traffic, now, store, seed, starts, posts>>

\* A request of a route registered without the auth middleware arrives.
ArrivePublic(r, ep, body) ==
    /\ req[r].pc = "idle"
    /\ Room(ep)
    /\ req' = [req EXCEPT ![r] =
                   [Idle EXCEPT !.ep = ep, !.pc = "await", !.arg = HandlerArg(ep, body)]]
    /\ sent' = Quiet
    /\ UNCHANGED <<env, traffic, now, store, seed, starts, posts>>

\* POST /api/login: no await; the handler answers in the run it starts in.
Login(r, password) ==
    /\ req[r].pc = "idle"
    /\ sent' = Answer(r, [ep |-> PostLogin, id |-> ""], password, 0, "",
                      IF login(password)
                      THEN Res(200, "", [success |-> TRUE, token |-> "admin-token"])
                      ELSE Res(401, "Invalid password", [success |-> FALSE]))
    /\ UNCHANGED <<env, traffic, now, store, seed, starts, req, posts>>

\* The awaited operation of request r is at the store.
At(r, ep) == req[r].pc = "await" /\ req[r].ep = ep

\* The handler's continuation sends res, and the request is over.
Reply(r, res) ==
    /\ sent' = Answer(r, req[r], req[r].password, req[r].ops + 1, "", res)
    /\ req' = [req EXCEPT ![r] = Idle]

\* The awaited operation rejected with err: the handler's catch block answers,
\* and the request is over.  err is a CastError when the filter's id does not
\* cast, a ValidationError when a required field is missing (both raised by
\* Mongoose before anything is written), and otherwise an error of the driver
\* or the server, which may come at any time.
Fault(r, err) ==
    /\ sent' = Answer(r, req[r], req[r].password, req[r].ops + 1, err, Catch(req[r].ep))
    /\ req' = [req EXCEPT ![r] = Idle]

\* PUT /api/settings
PutSettingsDone(r) ==
    /\ At(r, PutSettings)
    /\ \/ \E defaults \in BOOLEAN :
            LET out == UpsertFirst(settings, req[r].body, defaults)
            IN /\ settings' = out.coll
               /\ Reply(r, Res(200, "Settings updated", out.doc))
       \/ Fault(r, "MongoError") /\ UNCHANGED settings
    /\ UNCHANGED <<env, traffic, now, projects, blogs, contacts, seed, starts, posts>>

\* POST /api/projects
PostProjectDone(r) ==
    /\ At(r, PostProject)
    /\ \/ /\ ProjectValid(req[r].arg)
          /\ projects' = Append(projects, req[r].arg)
          /\ Reply(r, Res(200, "Project added", req[r].arg))
       \/ /\ Fault(r, IF ProjectValid(req[r].arg) THEN "MongoError" ELSE "ValidationError")
          /\ UNCHANGED projects
    /\ UNCHANGED <<env, traffic, now, settings, blogs, contacts, seed, starts, posts>>

\* PUT /api/projects/:id
PutProjectDone(r) ==
    /\ At(r, PutProject)
    /\ \/ /\ CastNumber(req[r].id).ok
          /\ projects' = findOneAndUpdate(projects, CastNumber(req[r].id).n, req[r].body)
          /\ Reply(r, Res(200, "Project updated", NoDoc))
       \/ /\ Fault(r, IF CastNumber(req[r].id).ok THEN "MongoError" ELSE "CastError")
          /\ UNCHANGED projects
    /\ UNCHANGED <<env, traffic, now, settings, blogs, contacts, seed, starts, posts>>

\* DELETE /api/projects/:id
DeleteProjectDone(r) ==
    /\ At(r, DeleteProject)
    /\ \/ /\ CastNumber(req[r].id).ok
          /\ projects' = findOneAndDelete(projects, CastNumber(req[r].id).n)
          /\ Reply(r, Res(200, "Project deleted", NoDoc))
       \/ /\ Fault(r, IF CastNumber(req[r].id).ok THEN "MongoError" ELSE "CastError")
          /\ UNCHANGED projects
    /\ UNCHANGED <<env, traffic, now, settings, blogs, contacts, seed, starts, posts>>

\* GET /api/blogs
GetBlogsDone(r) ==
    /\ At(r, GetBlogs)
    /\ \/ Reply(r, Res(200, "", SortByDateDesc(blogs)))
       \/ Fault(r, "MongoError")
    /\ UNCHANGED <<env, traffic, now, store, seed, starts, posts>>

\* POST /api/blogs
PostBlogDone(r) ==
    /\ At(r, PostBlog)
    /\ \/ /\ BlogValid(req[r].arg)
          /\ blogs' = Append(blogs, req[r].arg)
          /\ Reply(r, Res(200, "Blog posted", req[r].arg))
       \/ /\ Fault(r, IF BlogValid(req[r].arg) THEN "MongoError" ELSE "ValidationError")
          /\ UNCHANGED blogs
    /\ UNCHANGED <<env, traffic, now, settings, projects, contacts, seed, starts, posts>>

\* DELETE /api/blogs/:id
DeleteBlogDone(r) ==
    /\ At(r, DeleteBlog)
    /\ \/ /\ CastNumber(req[r].id).ok
          /\ blogs' = findOneAndDelete(blogs, CastNumber(req[r].id).n)
          /\ Reply(r, Res(200, "Blog deleted", NoDoc))
       \/ /\ Fault(r, IF CastNumber(req[r].id).ok THEN "MongoError" ELSE "CastError")
          /\ UNCHANGED blogs
    /\ UNCHANGED <<env, traffic, now, settings, projects, contacts, seed, starts, posts>>

\* --------------------------------------------------------------- contact
\* !webhookUrl
Falsy(v) == v.t \in {"undefined", "null"} \/ (v.t = "string" /\ v.v = "")

\* sendDiscordNotification(data), called without await: the number of
\* axios.post calls it leaves in flight.  It returns at once when no webhook URL
\* is configured; a failure of the post is caught and logged inside it.
sendDiscordNotification(webhookUrl) == IF Falsy(webhookUrl) THEN 0 ELSE 1

\* Fault injection for C4: the handler awaits the notification, so the response
\* waits for the webhook and a failed delivery is answered 500 although the
\* submission is stored.
PostContactDoneAwaited(r) ==
    /\ At(r, PostContact)
    /\ \/ /\ contacts' = Append(contacts, req[r].arg)
          /\ posts' = posts
          /\ \/ Reply(r, Res(200, "Message sent successfully", req[r].arg))
             \/ /\ ~Falsy(env.DISCORD_WEBHOOK_URL)
                /\ Fault(r, "AxiosError")
       \/ Fault(r, "MongoError") /\ UNCHANGED <<contacts, posts>>
    /\ UNCHANGED <<env, traffic, now, settings, projects, blogs, seed, starts>>

\* POST /api/contact: once the create resolves, the notification is started and
\* the response is sent, in the same synchronous run of the handler.
PostContactDone(r) ==
    /\ At(r, PostContact)
    /\ \/ /\ contacts' = Append(contacts, req[r].arg)
          /\ posts' = posts + sendDiscordNotification(env.DISCORD_WEBHOOK_URL)
          /\ Reply(r, Res(200, "Message sent successfully", req[r].arg))
       \/ Fault(r, "MongoError") /\ UNCHANGED <<contacts, posts>>
    /\ UNCHANGED <<env, traffic, now, settings, projects, blogs, seed, starts>>

\* The axios.post of a notification settles: it resolves, or it rejects and
\* the catch block of sendDiscordNotification logs the error.  Nothing is sent
\* to any caller.
WebhookSettle ==
    /\ posts > 0
    /\ posts' = posts - 1
    /\ sent' = Quiet
    /\ UNCHANGED <<env, traffic, now, store, seed, starts, req>>

\* GET /api/contact
GetContactDone(r) ==
    /\ At(r, GetContact)
    /\ \/ Reply(r, Res(200, "", SortByDateDesc(contacts)))
       \/ Fault(r, "MongoError")
    /\ UNCHANGED <<env, traffic, now, store, seed, starts, posts>>

\* GET /api/data: three awaited queries, one after the other.
GetDataStep(r) ==
    /\ At(r, GetData)
    /\ \/ /\ req[r].ops = 0
          /\ req' = [req EXCEPT ![r].ops = 1, ![r].arg = [settings |-> findOne(settings)]]
          /\ sent' = Quiet
       \/ /\ req[r].ops = 1
          /\ req' = [req EXCEPT ![r].ops = 2,
                        ![r].arg = [settings |-> req[r].arg.settings, projects |-> projects]]
          /\ sent' = Quiet
       \/ /\ req[r].ops = 2
          /\ Reply(r, Res(200, "", [settings |-> req[r].arg.settings,
                                    projects |-> req[r].arg.projects,
                                    blogs |-> SortByDateDesc(blogs)]))
       \/ Fault(r, "MongoError")
    /\ UNCHANGED <<env, traffic, now, store, seed, starts, posts>>

\* ---------------------------------------------------------------- seeding
\* The document seedDatabase creates.
SeedDefaults ==
    [name |-> "Vaibhav Kumar",
     bio |-> "Frontend Developer crafting high-performance, visually stunning web experiences.",
     email |-> "vaibhavsharma993@gmail.com",
     address |-> "Ghaziabad, India"]

\* Fault injection for C3: the seed test off by one.
SeedNeededOffByOne(count) == count <= 1

\* if (count === 0)
SeedNeeded(count) == count = 0

Starting == [pc |-> "count", count |-> 0, log |-> ""]

\* seedDatabase, up to its second await: const count = await Settings.countDocuments()
SeedCount ==
    /\ seed.pc = "count"
    /\ \/ LET count == countDocuments(settings)
          IN seed' = [pc |-> IF SeedNeeded(count) THEN "create" ELSE "done",
                      count |-> count, log |-> ""]
       \/ seed' = [seed EXCEPT !.pc = "done", !.log = "Seeding Error"]
    /\ sent' = Quiet
    /\ UNCHANGED <<env, traffic, now, store, starts, req, posts>>

\* seedDatabase, from await Settings.create({...}) on
SeedCreate ==
    /\ seed.pc = "create"
    /\ \/ /\ settings' = Append(settings, SettingsSchema(SeedDefaults))
          /\ seed' = [seed EXCEPT !.pc = "done",
                                  !.log = "Database seeded with default settings"]
       \/ /\ seed' = [seed EXCEPT !.pc = "done", !.log = "Seeding Error"]
          /\ UNCHANGED settings
    /\ sent' = Quiet
    /\ UNCHANGED <<env, traffic, now, projects, blogs, contacts, starts, req, posts>>

\* The process is started again over the same store (its requests and its
\* notifications in flight are gone), and calls seedDatabase() once more.
Start ==
    /\ starts < MaxStarts
    /\ seed.pc = "done"
    /\ starts' = starts + 1
    /\ seed' = Starting
    /\ req' = [r \in Slots |-> Idle]
    /\ posts' = 0
    /\ sent' = Quiet
    /\ UNCHANGED <<env, traffic, now, store>>

\* Date.now() advances.
Tick ==
    /\ now < MaxTime
    /\ now' = now + 1
    /\ sent' = Quiet
    /\ UNCHANGED <<env, traffic, store, seed, starts, req, posts>>

\* ------------------------------------------------------------ specification
\* The groups of routes.  The four collections are independent of each other
\* (no handler writes two of them), and a run's requests are taken from one
\* group, so that the reachable states are those of each group in turn.
Areas == {"settings", "content", "contact"}

Init ==
    /\ env \in [ADMIN_PASSWORD : AdminPasswords, DISCORD_WEBHOOK_URL : WebhookUrls]
    /\ traffic \in Areas
    /\ now = 0
    /\ settings = <<>>
    /\ projects = <<>>
    /\ blogs = <<>>
    /\ contacts = <<>>
    /\ seed = Starting
    /\ starts = 1
    /\ req = [r \in Slots |-> Idle]
    /\ posts = 0
    /\ sent = Quiet

Seeding == SeedCount \/ SeedCreate \/ Start

SettingsApi ==
    \E r \in Slots :
        \/ \E h \in HeaderPasswords, b \in SettingsBodies : Arrive(r, PutSettings, h, "", b)
        \/ PutSettingsDone(r)

ProjectApi ==
    \E r \in Slots :
        \/ \E h \in HeaderPasswords, b \in ProjectBodies : Arrive(r, PostProject, h, "", b)
        \/ \E h \in HeaderPasswords, id \in PathIds, b \in ProjectUpdates :
               Arrive(r, PutProject, h, id, b)
        \/ \E h \in HeaderPasswords, id \in PathIds : Arrive(r, DeleteProject, h, id, NoBody)
        \/ PostProjectDone(r)
        \/ PutProjectDone(r)
        \/ DeleteProjectDone(r)

BlogApi ==
    \E r \in Slots :
        \/ ArrivePublic(r, GetBlogs, NoBody)
        \/ \E h \in HeaderPasswords, b \in BlogBodies : Arrive(r, PostBlog, h, "", b)
        \/ \E h \in HeaderPasswords, id \in PathIds : Arrive(r, DeleteBlog, h, id, NoBody)
        \/ GetBlogsDone(r)
        \/ PostBlogDone(r)
        \/ DeleteBlogDone(r)

ContactApi ==
    \/ \E r \in Slots :
        \/ \E b \in ContactBodies : ArrivePublic(r, PostContact, b)
        \/ \E h \in HeaderPasswords : Arrive(r, GetContact, h, "", NoBody)
        \/ PostContactDone(r)
        \/ GetContactDone(r)
    \/ WebhookSettle

DataApi ==
    \E r \in Slots :
        \/ ArrivePublic(r, GetData, NoBody)
        \/ GetDataStep(r)

LoginApi == \E r \in Slots, p \in LoginPasswords : Login(r, p)

\* The seeding routine, the settings route and the login route.
NextSettings == Seeding \/ SettingsApi \/ LoginApi

\* The project and blog routes, and GET /api/data.
NextContent == Tick \/ ProjectApi \/ BlogApi \/ DataApi

\* The contact routes and the notification.
NextContact == Tick \/ ContactApi

\* The blog and contact routes: the two collections that are listed by date.
NextDated == Tick \/ BlogApi \/ ContactApi

Next ==
    \/ traffic = "settings" /\ NextSettings
    \/ traffic = "content" /\ NextContent
    \/ traffic = "contact" /\ NextContact

Spec == Init /\ [][Next]_vars

InitSettings == Init /\ traffic = "settings"

SpecSettings == InitSettings /\ [][NextSettings]_vars

InitContent == Init /\ traffic = "content"

SpecContent == InitContent /\ [][NextContent]_vars

InitContact == Init /\ traffic = "contact"

SpecContact == InitContact /\ [][NextContact]_vars

InitDated == Init /\ traffic = "contact"

SpecDated == InitDated /\ [][NextDated]_vars

\* ------------------------------------------------------------------- claims
\* This step sends the response of request r, which awaited the store on ep.
Completes(r, ep) == At(r, ep) /\ sent'.slot = r /\ sent'.ep = ep

\* C1: on every protected route, a request whose password header is not the
\* configured secret is answered 401 { message: 'Unauthorized' } without any
\* store operation, and the four collections are the same after it as before.
C1_UnauthorizedChangesNothing ==
    [][(sent'.ep \in Protected /\ ~StrictEquals(sent'.credential, env.ADMIN_PASSWORD))
          => /\ sent'.res.status = 401
             /\ sent'.res.message = "Unauthorized"
             /\ sent'.ops = 0
             /\ UNCHANGED store]_vars

\* A delete with a wrong password was refused while a project is stored.
C1_Witness ==
    /\ sent.ep = DeleteProject
    /\ sent.res.status = 401
    /\ sent.credential = Str("wrong")
    /\ env.ADMIN_PASSWORD = Secret
    /\ Len(projects) > 0

\* C2: no two Project documents share an id and no two Blog documents share an
\* id, however close in time their creates are handled.
C2_DistinctIds ==
    /\ \A i, j \in 1..Len(projects) : i # j => projects[i].id # projects[j].id
    /\ \A i, j \in 1..Len(blogs) : i # j => blogs[i].id # blogs[j].id

\* C3: seedDatabase, run against a store without Settings documents, creates
\* exactly one, the default one (name "Vaibhav Kumar"), unless the store faults;
\* run against a store that holds one or more, it creates none and changes none.
C3_SeedOnceOnlyWhenEmpty ==
    /\ [][(seed.pc = "count" /\ seed'.pc # "count")
             => /\ UNCHANGED settings
                /\ Len(settings) > 0 => seed'.pc = "done"
                /\ (Len(settings) = 0 /\ seed'.log = "") => seed'.pc = "create"]_vars
    /\ [][(seed.pc = "create" /\ seed'.pc # "create")
             => \/ /\ seed'.log = "Database seeded with default settings"
                   /\ Len(settings') = Len(settings) + 1
                   /\ SubSeq(settings', 1, Len(settings)) = settings
                   /\ settings'[Len(settings')].name = "Vaibhav Kumar"
                   /\ settings'[Len(settings')].phone = Absent
                \/ /\ seed'.log = "Seeding Error"
                   /\ UNCHANGED settings]_vars
    /\ [](seed.pc = "create" => seed.count = 0)

\* The second start found the document the first one seeded, and left it alone.
C3_Witness ==
    /\ starts = 2
    /\ seed.pc = "done"
    /\ seed.count = 1
    /\ seed.log = ""
    /\ settings = <<SettingsSchema(SeedDefaults)>>

\* C4: whenever the Contact create succeeds, the same step answers 200
\* { message: 'Message sent successfully', contact: the created document },
\* whatever the webhook configuration and while the notification, if any, is
\* still in flight; the settling of a notification sends nothing to anybody.
C4_ResponseIgnoresWebhook ==
    /\ [][\A r \in Slots :
             (At(r, PostContact) /\ req'[r].pc = "idle" /\ contacts' # contacts)
                 => /\ contacts' = Append(contacts, req[r].arg)
                    /\ sent'.slot = r
                    /\ sent'.res.status = 200
                    /\ sent'.res.message = "Message sent successfully"
                    /\ sent'.res.data = req[r].arg]_vars
    /\ [][posts' < posts => (sent'.slot = 0 /\ UNCHANGED store)]_vars

\* The success response was sent while the notification is in flight.
C4_Witness ==
    /\ sent.ep = PostContact
    /\ sent.res.status = 200
    /\ posts > 0

\* The id of the path matches no document of the collection.
NoMatch(coll, id) ==
    ~CastNumber(id).ok \/ \A i \in 1..Len(coll) : coll[i].id # CastNumber(id).n

\* C5: an authorized delete or update whose id matches no document is answered
\* (the store being available) with the success message of its route, never an
\* error, and the collection is unchanged.
C5_NoMatchAlwaysSucceeds ==
    [][\A r \in Slots :
          /\ (Completes(r, DeleteProject) /\ NoMatch(projects, req[r].id) /\ sent'.err # "MongoError")
                => /\ sent'.res.status = 200
                   /\ sent'.res.message = "Project deleted"
                   /\ UNCHANGED projects
          /\ (Completes(r, PutProject) /\ NoMatch(projects, req[r].id) /\ sent'.err # "MongoError")
                => /\ sent'.res.status = 200
                   /\ sent'.res.message = "Project updated"
                   /\ UNCHANGED projects
          /\ (Completes(r, DeleteBlog) /\ NoMatch(blogs, req[r].id) /\ sent'.err # "MongoError")
                => /\ sent'.res.status = 200
                   /\ sent'.res.message = "Blog deleted"
                   /\ UNCHANGED blogs]_vars

\* The number of positions of seq that hold d.
Count(seq, d) == Cardinality({i \in 1..Len(seq) : seq[i] = d})

\* C6: GET /api/blogs and an authorized GET /api/contact answer with exactly
\* the stored documents, ordered by date, latest first.
C6_ListedByDateDescending ==
    (sent.ep \in {GetBlogs, GetContact} /\ sent.res.status = 200)
        => LET coll == IF sent.ep = GetBlogs THEN blogs ELSE contacts
               out == sent.res.data
           IN /\ Len(out) = Len(coll)
              /\ \A i, j \in 1..Len(out) : i < j => out[i].date >= out[j].date
              /\ \A i \in 1..Len(coll) : Count(out, coll[i]) = Count(coll, coll[i])

\* Blogs stored with the earlier date first were listed.
C6_Witness ==
    /\ sent.ep = GetBlogs
    /\ sent.res.status = 200
    /\ Len(blogs) >= 2
    /\ blogs[1].date < blogs[2].date
    /\ Len(sent.res.data) = Len(blogs)

\* C7: an authorized PUT /api/settings on an existing singleton sets the fields
\* its body names and keeps every other field; the answer carries the document
\* after the merge.
C7_SettingsMerge ==
    [][\A r \in Slots :
          (Completes(r, PutSettings) /\ sent'.err = "" /\ settings # <<>>)
              => /\ Len(settings') = Len(settings)
                 /\ \A f \in SettingsFields :
                        settings'[1][f] = IF f \in DOMAIN req[r].body
                                          THEN req[r].body[f]
                                          ELSE settings[1][f]
                 /\ \A i \in 2..Len(settings) : settings'[i] = settings[i]
                 /\ sent'.res.status = 200
                 /\ sent'.res.message = "Settings updated"
                 /\ sent'.res.data = settings'[1]]_vars

\* The seeded document after an update of bio and phone alone.
C7_Witness ==
    /\ sent.ep = PutSettings
    /\ sent.res.status = 200
    /\ Len(settings) = 1
    /\ settings[1].bio = "b1"
    /\ settings[1].phone = "p1"
    /\ settings[1].name = "Vaibhav Kumar"
    /\ settings[1].email = SeedDefaults.email
    /\ settings[1].address = SeedDefaults.address

\* The fixed message of each route's internal error.
C8_Message(ep) ==
    CASE ep = GetData -> "Server Error"
      [] ep = PutSettings -> "Error updating settings"
      [] ep = PostProject -> "Error adding project"
      [] ep = PutProject -> "Error updating project"
      [] ep = DeleteProject -> "Error deleting project"
      [] ep = GetBlogs -> "Error fetching blogs"
      [] ep = PostBlog -> "Error adding blog"
      [] ep = DeleteBlog -> "Error deleting blog"
      [] ep = PostContact -> "Error sending message"
      [] ep = GetContact -> "Error fetching messages"

\* C8: when a handler's store operation faults, the caller gets 500 with the
\* route's fixed message, the request is over (the operation is not tried
\* again), and a faulted Contact create starts no notification.
C8_StoreFault ==
    /\ [](sent.err # ""
             => /\ sent.ep \in Awaiting
                /\ sent.res.status = 500
                /\ sent.res.message = C8_Message(sent.ep)
                /\ req[sent.slot].pc = "idle"
                /\ sent.ops <= (IF sent.ep = GetData THEN 3 ELSE 1))
    /\ [][sent'.err # "" => (UNCHANGED store /\ posts' = posts)]_vars

\* A Contact create faulted with a webhook configured: nothing is in flight.
C8_Witness ==
    /\ sent.err # ""
    /\ sent.ep = PostContact
    /\ ~Falsy(env.DISCORD_WEBHOOK_URL)
    /\ posts = 0

\* C9: a request passes the auth middleware exactly when its password header
\* is the configured secret, so with the secret unset a request without the
\* header passes; POST /api/login succeeds exactly when the body's password is
\* the configured secret, so with the secret unset a body without password
\* gets { success: true, token: 'admin-token' }.
C9_GateIsStrictEquality ==
    /\ \A r \in Slots :
           (req[r].pc = "await" /\ req[r].ep \in Protected)
               => StrictEquals(req[r].password, env.ADMIN_PASSWORD)
    /\ (sent.ep \in Protected /\ sent.res.status = 401)
           => ~StrictEquals(sent.credential, env.ADMIN_PASSWORD)
    /\ sent.ep = PostLogin
           => IF StrictEquals(sent.credential, env.ADMIN_PASSWORD)
              THEN /\ sent.res.status = 200
                   /\ sent.res.data.success
                   /\ sent.res.data.token = "admin-token"
              ELSE /\ sent.res.status = 401
                   /\ ~sent.res.data.success

\* With the secret unset, a request without the header reached its handler.
C9_Witness ==
    /\ env.ADMIN_PASSWORD = Undefined
    /\ \E r \in Slots :
           /\ req[r].pc = "await"
           /\ req[r].ep \in Protected
           /\ req[r].password = Undefined

\* C10: the Settings collection never holds more than one document.
C10_AtMostOneSettings == Len(settings) <= 1

====
